---------------------------- MODULE Spec2Model ----------------------------
(* A model of src/src/lib.rs: the growable sieve of Eratosthenes `Primes`  *)
(* and its two iterators `Iter` (borrowing) and `IntoIter` (owning).       *)
(*                                                                         *)
(* `usize` is modelled as an unsigned integer of `width` bits, the width   *)
(* of the target's pointers: W bits in Spec, W + 1 bits in SpecWide.       *)
(* Arithmetic on it either panics (overflow checks on, the debug profile)  *)
(* or wraps modulo 2^width (overflow checks off, the release profile); the *)
(* build profile is the variable overflow_checks.  Both are fixed when the *)
(* program is built.                                                       *)
(* Rust vectors are 0-indexed, TLA+ sequences 1-indexed: sieve[i] of the   *)
(* source is sieve[i + 1] here, see At.                                    *)
EXTENDS Integers, Sequences, FiniteSets, TLC

VARIABLES
    overflow_checks, \* build profile: TRUE = arithmetic overflow panics
    width,           \* build target: the number of bits of usize
    sieve,           \* Primes::sieve,  Vec<bool>
    primes,          \* Primes::primes, Vec<usize>
    mode,            \* who holds the engine: "primes", "iter", "into_iter"
    index,           \* Iter::index / IntoIter::index
    panicked,        \* the last call unwound with a panic
    pc,              \* the caller: "idle" before a call, "returned" after it
    last             \* the call that returned: its name, argument, result

vars == <<overflow_checks, width, sieve, primes, mode, index, panicked, pc, last>>

-----------------------------------------------------------------------------
(* The index type                                                          *)

\* the width of usize in bits of the narrower target; there squares
\* overflow from 23 * 23 on
W == 9

\* usize::MAX
MaxUsize == 2^width - 1

\* isize::MAX, the largest capacity in bytes a Vec accepts
MaxCap == 2^(width - 1) - 1

Usize == 0..MaxUsize

\* the amounts generate_amount is called with; larger ones end like the
\* largest, in a capacity panic
MaxAmount == 40

\* the value a wrapping operation leaves
Wrap(x) == x % (MaxUsize + 1)

\* the exact result does not fit the type
Overflows(x) == x > MaxUsize \/ x < 0

\* sieve[i] of the source
At(s, i) == s[i + 1]

-----------------------------------------------------------------------------
(* Reference definitions, independent of the code                          *)

IsPrimeRef(i) == i >= 2 /\ \A d \in 2..(i - 1) : i % d # 0

RefPrimes == {i \in Usize : IsPrimeRef(i)}

\* the k-th prime, k >= 1 (0 when it does not fit the index type)
NthPrime(k) ==
    IF k > Cardinality(RefPrimes) THEN 0
    ELSE CHOOSE c \in RefPrimes : Cardinality({d \in RefPrimes : d <= c}) = k

IsPowerOfTwo(x) == \E e \in 0..W : x = 2^e

-----------------------------------------------------------------------------
(* usize::next_power_of_two: the smallest power of two >= x                *)

RECURSIVE Pow2From(_, _)
Pow2From(p, x) == IF p >= x THEN p ELSE Pow2From(2 * p, x)

\* a faulty variant: the largest power of two <= x
next_power_of_two_floor(x) ==
    IF Pow2From(1, x) = x THEN x ELSE Pow2From(1, x) \div 2

\* a faulty variant: the smallest power of two > x
next_power_of_two_off(x) == Pow2From(1, x + 1)

next_power_of_two(x) == Pow2From(1, x)

-----------------------------------------------------------------------------
(* Primes::new                                                             *)

\* a faulty variant: 3 is left out of the initial sieve and list
new_short == [sieve |-> <<TRUE, TRUE, FALSE>>, primes |-> <<2>>]

new == [sieve |-> <<TRUE, TRUE, FALSE, FALSE>>, primes |-> <<2, 3>>]

-----------------------------------------------------------------------------
(* Binding a value                                                         *)

\* The element of a singleton.  The({e(x) : x \in {v}}) is e(x) with x bound
\* to the value of v, which is computed once however often e uses x.
The(S) == CHOOSE x \in S : TRUE

-----------------------------------------------------------------------------
(* Primes::generate_to                                                     *)

\* `(n + 1).next_power_of_two()`: the length asked for.  n + 1 wraps to 0
\* and next_power_of_two wraps to 0 when overflow checks are off.
TargetLen(n) ==
    IF Overflows(n + 1)
    THEN [overflow |-> TRUE, len |-> next_power_of_two(Wrap(n + 1))]
    ELSE IF Overflows(next_power_of_two(n + 1))
         THEN [overflow |-> TRUE, len |-> 0]
         ELSE [overflow |-> FALSE, len |-> next_power_of_two(n + 1)]

\* `self.sieve.reserve(len - self.sieve.len())` panics with "capacity
\* overflow" when the new capacity exceeds isize::MAX bytes
ReservePanics(old_len, len) == old_len + Wrap(len - old_len + MaxUsize + 1) > MaxCap

\* `while self.sieve.len() < len { self.sieve.push(false) }`
PushFalse(s, len) == s \o [i \in 1..(len - Len(s)) |-> FALSE]

\* `number` is a value of `(start..).step_by(step)`
Stepped(number, start, step) ==
    number >= start /\ (number - start) % step = 0

\* `for number in (start..self.sieve.len()).step_by(step) { sieve[number] = true }`
Mark(s, start, step) ==
    [i \in 1..Len(s) |-> s[i] \/ Stepped(i - 1, start, step)]

\* the first loop, `for prime in &self.primes`, over the primes known before
\* the call.  Its iterations only set entries to true, each from the
\* unchanged old_len and its own prime, so the loop is given by the first
\* iteration that panics (if any) and the marks of the iterations before it.
PropagateSum(p, old_len, k) == old_len + p[k] - 1

PropagateStart(p, old_len, k) ==
    (Wrap(PropagateSum(p, old_len, k)) \div p[k]) * p[k]

\* the iteration the first loop panics in, Len(p) + 1 if in none
PropagateStop(p, old_len, checks) ==
    IF checks /\ \E k \in 1..Len(p) : Overflows(PropagateSum(p, old_len, k))
    THEN CHOOSE k \in 1..Len(p) :
            /\ Overflows(PropagateSum(p, old_len, k))
            /\ \A j \in 1..(k - 1) : ~Overflows(PropagateSum(p, old_len, j))
    ELSE Len(p) + 1

Propagate(s, p, old_len, checks) ==
    The({[sieve |-> [i \in 1..Len(s) |->
                       s[i] \/ \E k \in 1..(stop - 1) :
                                  Stepped(i - 1, PropagateStart(p, old_len, k), p[k])],
          panic |-> stop <= Len(p),
          overflow |-> \E k \in 1..Len(p) : Overflows(PropagateSum(p, old_len, k))]
         : stop \in {PropagateStop(p, old_len, checks)}})

\* where the marking of a newly found prime starts: `prime * prime`
ScanStart(prime) == prime * prime

\* a faulty variant: the new prime is put in front of the list
PushFront(p, prime) == <<prime>> \o p

\* `self.primes.push(prime)`
Push(p, prime) == Append(p, prime)

\* one iteration of the second loop, `if !self.sieve[prime] { ... }`, on the
\* engine st; nothing runs after a panic
ScanStep(st, prime, checks) ==
    IF st.panic \/ At(st.sieve, prime) THEN st
    ELSE IF Overflows(ScanStart(prime)) /\ checks
    THEN [st EXCEPT !.panic = TRUE, !.overflow = TRUE]
    ELSE [sieve |-> Mark(st.sieve, Wrap(ScanStart(prime)), prime),
          primes |-> Push(st.primes, prime),
          panic |-> FALSE,
          overflow |-> st.overflow \/ Overflows(ScanStart(prime))]

\* the iterations lo, ..., hi - 1 of the second loop, in this order: those
\* of the lower half of the range, then those of the upper half
RECURSIVE ScanRange(_, _, _, _)
ScanRange(st, lo, hi, checks) ==
    IF hi <= lo THEN st
    ELSE IF hi = lo + 1 THEN ScanStep(st, lo, checks)
    ELSE The({ScanRange(half, (lo + hi) \div 2, hi, checks)
              : half \in {ScanRange(st, lo, (lo + hi) \div 2, checks)}})

\* the second loop, `for prime in old_len..self.sieve.len()`
Scan(s, p, old_len, checks) ==
    The({ScanRange(st, old_len, Len(s), checks)
         : st \in {[sieve |-> s, primes |-> p, panic |-> FALSE,
                    overflow |-> FALSE]}})

\* the sieve is extended to `len` and the two loops run
Grow(s, p, old_len, len, checks) ==
    The({IF pr.panic
         THEN [sieve |-> pr.sieve, primes |-> p, panic |-> TRUE, overflow |-> TRUE]
         ELSE The({[sc EXCEPT !.overflow = @ \/ pr.overflow]
                   : sc \in {Scan(pr.sieve, p, old_len, checks)}})
         : pr \in {The({Propagate(grown, p, old_len, checks)
                        : grown \in {PushFalse(s, len)}})}})

\* a faulty variant: the early return is missing
CoveredNever(s, n) == FALSE

\* `if self.sieve.len() > n { return; }`
Covered(s, n) == Len(s) > n

generate_to(s, p, n, checks) ==
    IF Covered(s, n)
    THEN [sieve |-> s, primes |-> p, panic |-> FALSE, overflow |-> FALSE]
    ELSE The({IF (t.overflow /\ checks) \/ ReservePanics(Len(s), t.len)
              THEN [sieve |-> s, primes |-> p, panic |-> TRUE,
                    overflow |-> t.overflow]
              ELSE Grow(s, p, Len(s), t.len, checks)
              : t \in {TargetLen(n)}})

-----------------------------------------------------------------------------
(* Primes::generate_amount                                                 *)

\* a faulty variant: `<` for `<=`
LoopTestStrict(p, amount) == Len(p) < amount

\* a faulty variant: the loop runs until the list holds amount + 2 primes
LoopTestEager(p, amount) == Len(p) <= amount + 1

\* `while self.primes.len() <= amount`
LoopTest(p, amount) == Len(p) <= amount

\* a faulty variant: the loop asks for the last index the sieve already has
LoopArgBelow(s) == Len(s) - 1

\* the argument of `self.generate_to(self.sieve.len())`
LoopArg(s) == Len(s)

RECURSIVE generate_amount(_, _, _, _)
generate_amount(s, p, amount, checks) ==
    IF LoopTest(p, amount)
    THEN The({IF r.panic THEN r
              ELSE The({[q EXCEPT !.overflow = @ \/ r.overflow]
                        : q \in {generate_amount(r.sieve, r.primes, amount, checks)}})
              : r \in {generate_to(s, p, LoopArg(s), checks)}})
    ELSE [sieve |-> s, primes |-> p, panic |-> FALSE, overflow |-> FALSE]

-----------------------------------------------------------------------------
(* Primes::is_prime                                                        *)

\* the k-th iteration of `for prime in &self.primes` leaves the loop
KnownExit(p, k, n, checks) ==
    \/ Overflows(p[k] * p[k]) /\ checks
    \/ Wrap(p[k] * p[k]) > n
    \/ n % p[k] = 0

\* `for prime in &self.primes`: no iteration changes anything, so the loop
\* is given by the first iteration that leaves it.  done = FALSE: the list
\* ran out and the wheel takes over.
KnownLoop(p, n, checks) ==
    IF \A k \in 1..Len(p) : ~KnownExit(p, k, n, checks)
    THEN [done |-> FALSE, ret |-> FALSE, panic |-> FALSE,
          overflow |-> \E j \in 1..Len(p) : Overflows(p[j] * p[j])]
    ELSE The({IF Overflows(p[k] * p[k]) /\ checks
              THEN [done |-> TRUE, ret |-> FALSE, panic |-> TRUE,
                    overflow |-> TRUE]
              ELSE [done |-> TRUE, ret |-> Wrap(p[k] * p[k]) > n, panic |-> FALSE,
                    overflow |-> \E j \in 1..k : Overflows(p[j] * p[j])]
              : k \in {CHOOSE i \in 1..Len(p) :
                          /\ KnownExit(p, i, n, checks)
                          /\ \A j \in 1..(i - 1) : ~KnownExit(p, j, n, checks)}})

\* `let start = { ... }`
WheelStart(p) ==
    The({IF lastp % 6 = 1 THEN lastp - 1
         ELSE IF lastp % 6 = 5 THEN lastp + 1
         ELSE 6
         : lastp \in {IF Len(p) = 0 THEN 0 ELSE p[Len(p)]}})

\* the break test of the wheel: `(number - 1) * (number - 1)`
WheelSquare(number) == (number - 1) * (number - 1)

\* the iteration of the wheel with this `number` leaves the loop.  The range
\* computes number + 1 before it yields number.
WheelExit(number, n, checks) ==
    \/ Overflows(number + 1)
    \/ Overflows(WheelSquare(number)) /\ checks
    \/ Wrap(WheelSquare(number)) > n
    \/ n % (number - 1) = 0
    \/ n % (number + 1) = 0

\* `for number in (start..).step_by(6)`: the j-th value of the range is
\* start + 6 * j.  No iteration changes anything, so the loop is given by
\* the first iteration that leaves it; it leaves at the latest when
\* number - 1 or number + 1 reaches n or the range overflows.
WheelLoop(start, n, checks) ==
    The({IF Overflows(number + 1) \/ (Overflows(WheelSquare(number)) /\ checks)
         THEN [ret |-> FALSE, panic |-> TRUE, overflow |-> TRUE]
         ELSE [ret |-> Wrap(WheelSquare(number)) > n, panic |-> FALSE,
               overflow |-> Overflows(WheelSquare(number))]
         : number \in {start + 6 * (CHOOSE j \in 0..(MaxUsize \div 6 + 1) :
                          /\ WheelExit(start + 6 * j, n, checks)
                          /\ \A h \in 0..(j - 1) :
                                ~WheelExit(start + 6 * h, n, checks))}})

is_prime(s, p, n, checks) ==
    IF Len(s) > n
    THEN [ret |-> ~At(s, n), panic |-> FALSE, overflow |-> FALSE]
    ELSE IF n % 2 = 0 \/ n % 3 = 0
    THEN [ret |-> FALSE, panic |-> FALSE, overflow |-> FALSE]
    ELSE The({IF k.done
              THEN [ret |-> k.ret, panic |-> k.panic, overflow |-> k.overflow]
              ELSE The({[w EXCEPT !.overflow = @ \/ k.overflow]
                        : w \in {The({WheelLoop(start, n, checks)
                                      : start \in {WheelStart(p)}})}})
              : k \in {KnownLoop(p, n, checks)}})

-----------------------------------------------------------------------------
(* IntoIter::next and Iter::next                                           *)

\* `self.index += 1; self.primes.generate_amount(self.index);
\*  Some(self.primes.primes()[self.index - 1])`
IntoIter_next(s, p, idx, checks) ==
    IF Overflows(idx + 1) /\ checks
    THEN [sieve |-> s, primes |-> p, index |-> idx, ret |-> 0,
          panic |-> TRUE, overflow |-> TRUE]
    ELSE The({IF g.panic \/ Wrap(idx + 1) = 0
              THEN [sieve |-> g.sieve, primes |-> g.primes,
                    index |-> Wrap(idx + 1), ret |-> 0, panic |-> TRUE,
                    overflow |-> g.overflow \/ Overflows(idx + 1)]
              ELSE [sieve |-> g.sieve, primes |-> g.primes,
                    index |-> Wrap(idx + 1), ret |-> g.primes[Wrap(idx + 1)],
                    panic |-> FALSE,
                    overflow |-> g.overflow \/ Overflows(idx + 1)]
              : g \in {generate_amount(s, p, Wrap(idx + 1), checks)}})

Iter_next(s, p, idx, checks) ==
    IF Overflows(idx + 1) /\ checks
    THEN [sieve |-> s, primes |-> p, index |-> idx, ret |-> 0,
          panic |-> TRUE, overflow |-> TRUE]
    ELSE The({IF g.panic \/ Wrap(idx + 1) = 0
              THEN [sieve |-> g.sieve, primes |-> g.primes,
                    index |-> Wrap(idx + 1), ret |-> 0, panic |-> TRUE,
                    overflow |-> g.overflow \/ Overflows(idx + 1)]
              ELSE [sieve |-> g.sieve, primes |-> g.primes,
                    index |-> Wrap(idx + 1), ret |-> g.primes[Wrap(idx + 1)],
                    panic |-> FALSE,
                    overflow |-> g.overflow \/ Overflows(idx + 1)]
              : g \in {generate_amount(s, p, Wrap(idx + 1), checks)}})

-----------------------------------------------------------------------------
(* The state machine                                                       *)

\* what `last` records of a call
Call(op, arg, bool, num, overflow) ==
    [op |-> op, arg |-> arg, bool |-> bool, num |-> num, overflow |-> overflow]

NoCall == Call("none", 0, FALSE, 0, FALSE)

Init ==
    /\ overflow_checks \in BOOLEAN
    /\ width = W
    /\ sieve = new.sieve
    /\ primes = new.primes
    /\ mode = "primes"
    /\ index = 0
    /\ panicked = FALSE
    /\ pc = "idle"
    /\ last = NoCall

GenerateTo(n) ==
    /\ mode = "primes" /\ pc = "idle"
    /\ \E r \in {generate_to(sieve, primes, n, overflow_checks)} :
           /\ sieve' = r.sieve
           /\ primes' = r.primes
           /\ panicked' = r.panic
           /\ last' = Call("generate_to", n, FALSE, 0, r.overflow)
    /\ pc' = "returned"
    /\ UNCHANGED <<overflow_checks, width, mode, index>>

GenerateAmount(amount) ==
    /\ mode = "primes" /\ pc = "idle"
    /\ \E r \in {generate_amount(sieve, primes, amount, overflow_checks)} :
           /\ sieve' = r.sieve
           /\ primes' = r.primes
           /\ panicked' = r.panic
           /\ last' = Call("generate_amount", amount, FALSE, 0, r.overflow)
    /\ pc' = "returned"
    /\ UNCHANGED <<overflow_checks, width, mode, index>>

\* a faulty variant: the query grows the sieve to cover n before answering
IsPrimeGrowing(n) ==
    /\ mode = "primes" /\ pc = "idle"
    /\ \E g \in {generate_to(sieve, primes, n, overflow_checks)} :
           /\ sieve' = g.sieve
           /\ primes' = g.primes
           /\ \E r \in {is_prime(g.sieve, g.primes, n, overflow_checks)} :
                  /\ panicked' = (g.panic \/ r.panic)
                  /\ last' = Call("is_prime", n, r.ret, 0, r.overflow)
    /\ pc' = "returned"
    /\ UNCHANGED <<overflow_checks, width, mode, index>>

IsPrime(n) ==
    /\ mode = "primes" /\ pc = "idle"
    /\ \E r \in {is_prime(sieve, primes, n, overflow_checks)} :
           /\ panicked' = r.panic
           /\ last' = Call("is_prime", n, r.ret, 0, r.overflow)
    /\ pc' = "returned"
    /\ UNCHANGED <<overflow_checks, width, sieve, primes, mode, index>>

\* Primes::iter: the engine is lent to an Iter
MakeIter ==
    /\ mode = "primes" /\ pc = "idle"
    /\ mode' = "iter"
    /\ index' = 0
    /\ UNCHANGED <<overflow_checks, width, sieve, primes, panicked, pc, last>>

\* the Iter goes out of scope and the borrow ends
DropIter ==
    /\ mode = "iter" /\ pc = "idle"
    /\ mode' = "primes"
    /\ index' = 0
    /\ UNCHANGED <<overflow_checks, width, sieve, primes, panicked, pc, last>>

\* IntoIterator for Primes: the engine moves into an IntoIter
MakeIntoIter ==
    /\ mode = "primes" /\ pc = "idle"
    /\ mode' = "into_iter"
    /\ index' = 0
    /\ UNCHANGED <<overflow_checks, width, sieve, primes, panicked, pc, last>>

IterNext ==
    /\ mode = "iter" /\ pc = "idle"
    /\ \E r \in {Iter_next(sieve, primes, index, overflow_checks)} :
           /\ sieve' = r.sieve
           /\ primes' = r.primes
           /\ index' = r.index
           /\ panicked' = r.panic
           /\ last' = Call("next", 0, FALSE, r.ret, r.overflow)
    /\ pc' = "returned"
    /\ UNCHANGED <<overflow_checks, width, mode>>

IntoIterNext ==
    /\ mode = "into_iter" /\ pc = "idle"
    /\ \E r \in {IntoIter_next(sieve, primes, index, overflow_checks)} :
           /\ sieve' = r.sieve
           /\ primes' = r.primes
           /\ index' = r.index
           /\ panicked' = r.panic
           /\ last' = Call("next", 0, FALSE, r.ret, r.overflow)
    /\ pc' = "returned"
    /\ UNCHANGED <<overflow_checks, width, mode>>

\* the caller takes the result and goes on; after a panic nothing goes on
Resume ==
    /\ pc = "returned" /\ ~panicked
    /\ pc' = "idle"
    /\ last' = NoCall
    /\ UNCHANGED <<overflow_checks, width, sieve, primes, mode, index, panicked>>

Next ==
    \/ \E n \in Usize : GenerateTo(n)
    \/ \E amount \in 0..MaxAmount : GenerateAmount(amount)
    \/ \E n \in Usize : IsPrime(n)
    \/ MakeIter
    \/ DropIter
    \/ MakeIntoIter
    \/ IterNext
    \/ IntoIterNext
    \/ Resume

Spec == Init /\ [][Next]_vars

\* the same program built for a target whose usize is one bit wider
InitWide ==
    /\ overflow_checks \in BOOLEAN
    /\ width = W + 1
    /\ sieve = new.sieve
    /\ primes = new.primes
    /\ mode = "primes"
    /\ index = 0
    /\ panicked = FALSE
    /\ pc = "idle"
    /\ last = NoCall

SpecWide == InitWide /\ [][Next]_vars

-----------------------------------------------------------------------------
(* The loop of generate_amount, one iteration a step                       *)

\* generate_amount is entered: the loop stands before its first test
CallGenerateAmount(amount) ==
    /\ mode = "primes" /\ pc = "idle"
    /\ pc' = "loop"
    /\ last' = Call("generate_amount", amount, FALSE, 0, FALSE)
    /\ UNCHANGED <<overflow_checks, width, sieve, primes, mode, index, panicked>>

\* the test holds and the body `self.generate_to(self.sieve.len())` runs
LoopIteration ==
    /\ pc = "loop" /\ LoopTest(primes, last.arg)
    /\ \E r \in {generate_to(sieve, primes, LoopArg(sieve), overflow_checks)} :
           /\ sieve' = r.sieve
           /\ primes' = r.primes
           /\ panicked' = r.panic
           /\ pc' = IF r.panic THEN "returned" ELSE "loop"
           /\ last' = [last EXCEPT !.overflow = @ \/ r.overflow]
    /\ UNCHANGED <<overflow_checks, width, mode, index>>

\* the test fails and generate_amount returns
LoopExit ==
    /\ pc = "loop" /\ ~LoopTest(primes, last.arg)
    /\ pc' = "returned"
    /\ UNCHANGED <<overflow_checks, width, sieve, primes, mode, index, panicked, last>>

NextLoop ==
    \/ \E n \in Usize : GenerateTo(n)
    \/ \E amount \in 0..MaxAmount : CallGenerateAmount(amount)
    \/ LoopIteration
    \/ LoopExit
    \/ Resume

\* a call that has started runs on: the program is sequential and nothing
\* pre-empts the loop
SpecLoop ==
    Init /\ [][NextLoop]_vars /\ WF_vars(LoopIteration) /\ WF_vars(LoopExit)

-----------------------------------------------------------------------------
(* The second loop of generate_to, one iteration a step.  While the loop   *)
(* runs, last.num is the index `prime` the loop visits next.               *)

\* generate_to up to the end of its first loop: the early return, the new
\* length, the reserve, the pushes and the marks of the known primes
GenerateToBegin(n) ==
    /\ mode = "primes" /\ pc = "idle"
    /\ IF Covered(sieve, n)
       THEN /\ pc' = "returned"
            /\ last' = Call("generate_to", n, FALSE, 0, FALSE)
            /\ UNCHANGED <<sieve, primes, panicked>>
       ELSE \E t \in {TargetLen(n)} :
               IF (t.overflow /\ overflow_checks) \/ ReservePanics(Len(sieve), t.len)
               THEN /\ pc' = "returned"
                    /\ panicked' = TRUE
                    /\ last' = Call("generate_to", n, FALSE, 0, t.overflow)
                    /\ UNCHANGED <<sieve, primes>>
               ELSE \E pr \in {Propagate(PushFalse(sieve, t.len), primes,
                                         Len(sieve), overflow_checks)} :
                       /\ sieve' = pr.sieve
                       /\ panicked' = pr.panic
                       /\ pc' = IF pr.panic THEN "returned" ELSE "scan"
                       /\ last' = Call("generate_to", n, FALSE,
                                       IF pr.panic THEN 0 ELSE Len(sieve),
                                       pr.overflow)
                       /\ UNCHANGED primes
    /\ UNCHANGED <<overflow_checks, width, mode, index>>

\* one iteration of `for prime in old_len..self.sieve.len()`
ScanIteration ==
    /\ pc = "scan" /\ last.num < Len(sieve)
    /\ \E st \in {ScanStep([sieve |-> sieve, primes |-> primes, panic |-> FALSE,
                             overflow |-> last.overflow],
                            last.num, overflow_checks)} :
           /\ sieve' = st.sieve
           /\ primes' = st.primes
           /\ panicked' = st.panic
           /\ pc' = IF st.panic THEN "returned" ELSE "scan"
           /\ last' = [last EXCEPT !.num = IF st.panic THEN 0 ELSE @ + 1,
                                   !.overflow = st.overflow]
    /\ UNCHANGED <<overflow_checks, width, mode, index>>

\* the range is exhausted and generate_to returns
ScanEnd ==
    /\ pc = "scan" /\ last.num >= Len(sieve)
    /\ pc' = "returned"
    /\ last' = [last EXCEPT !.num = 0]
    /\ UNCHANGED <<overflow_checks, width, sieve, primes, mode, index, panicked>>

NextScan ==
    \/ \E n \in Usize : GenerateToBegin(n)
    \/ ScanIteration
    \/ ScanEnd
    \/ Resume

SpecScan == Init /\ [][NextScan]_vars

-----------------------------------------------------------------------------
(* Steps of the calls, for the properties below                            *)

Returned(op) == pc = "returned" /\ last.op = op /\ ~panicked

\* this step is a call of `op` that returns
Returns(op) == pc = "idle" /\ pc' = "returned" /\ last'.op = op /\ ~panicked'

IsPrefix(a, b) == Len(a) <= Len(b) /\ SubSeq(b, 1, Len(a)) = a

Range(f) == {f[i] : i \in DOMAIN f}

\* the smallest power of two exceeding n
SmallestPowerAbove(n) ==
    CHOOSE q \in {2^e : e \in 0..(W + 1)} :
        q > n /\ \A e \in 0..(W + 1) : 2^e > n => q <= 2^e

Max(a, b) == IF a >= b THEN a ELSE b

-----------------------------------------------------------------------------
(* C1: in every state the calls reach, for every index i below the sieve   *)
(* length, sieve[i] is false if and only if i is a prime number.           *)
C1_SieveMarksExactlyTheComposites ==
    ~panicked =>
        \A i \in 0..(Len(sieve) - 1) : At(sieve, i) = ~IsPrimeRef(i)

(* C2: is_prime(n) is true exactly when n is prime, whether it is answered *)
(* from the sieve or by trial division and the wheel.                      *)
C2_IsPrimeIsExact ==
    Returned("is_prime") => last.bool = IsPrimeRef(last.arg)

(* C3: the k-th next of either iterator returns the k-th prime, and the    *)
(* two iterators do the same on the same engine and cursor.                *)
C3_NextYieldsTheKthPrime ==
    /\ Returned("next") => last.num = NthPrime(index)
    /\ (pc = "idle" /\ mode \in {"iter", "into_iter"}) =>
          Iter_next(sieve, primes, index, overflow_checks)
              = IntoIter_next(sieve, primes, index, overflow_checks)

(* C4: primes is strictly increasing and holds exactly the indices below   *)
(* the sieve length whose sieve entry is false.                            *)
C4_PrimesListMatchesSieve ==
    ~panicked =>
        /\ \A i, j \in 1..Len(primes) : i < j => primes[i] < primes[j]
        /\ \A i \in 0..(Len(sieve) - 1) : ~At(sieve, i) <=> i \in Range(primes)
        /\ \A i \in 1..Len(primes) : primes[i] < Len(sieve)

(* C5: the sieve length is always a power of two and at least 4, and when  *)
(* generate_to(n) has returned the length exceeds n.                       *)
C5_LengthPowerOfTwoAndCovers ==
    /\ IsPowerOfTwo(Len(sieve))
    /\ Len(sieve) >= 4
    /\ Returned("generate_to") => Len(sieve) > last.arg

C5_Witness ==
    Returned("generate_to") /\ last.arg = 10 /\ Len(sieve) = 16

(* C6: when generate_amount(amount) returns the primes list has at least   *)
(* amount + 1 entries, and a list that already had more than amount        *)
(* entries leaves the engine as it was.                                    *)
C6_GenerateAmountEnsuresCount ==
    [][Returns("generate_amount") =>
          /\ Len(primes') >= last'.arg + 1
          /\ Len(primes) > last'.arg => (sieve' = sieve /\ primes' = primes)]_vars

C6_Witness ==
    Returned("generate_amount") /\ last.arg = 5 /\ Len(primes) = 6

(* C7: over every step the sieve length never decreases and the primes     *)
(* list before the step is a prefix of the list after it; the list always  *)
(* begins 2, 3.                                                            *)
C7_MonotonicGrowth ==
    [][/\ Len(sieve') >= Len(sieve)
       /\ IsPrefix(primes, primes')
       /\ IsPrefix(<<2, 3>>, primes)
       /\ IsPrefix(<<2, 3>>, primes')]_vars

C7_Witness ==
    Returned("next") /\ Len(primes) = 6 /\ index = 4

(* C8: generate_to(n) on a sieve longer than n returns and changes neither *)
(* the sieve nor the primes list, and a second generate_to(n) after one    *)
(* that returned changes nothing.                                          *)
C8_GenerateToIdempotent ==
    [][/\ (pc = "idle" /\ pc' = "returned" /\ last'.op = "generate_to"
              /\ Len(sieve) > last'.arg) =>
             (~panicked' /\ sieve' = sieve /\ primes' = primes)
       /\ Returns("generate_to") =>
             \E again \in {generate_to(sieve', primes', last'.arg, overflow_checks)} :
                 ~again.panic /\ again.sieve = sieve' /\ again.primes = primes']_vars

C8_Witness ==
    Returned("generate_to") /\ last.arg = 3 /\ Len(sieve) = 16

(* C9: no square and no wheel candidate that is_prime computes exceeds     *)
(* usize::MAX.                                                             *)
C9_IsPrimeNeverOverflows ==
    (pc = "returned" /\ last.op = "is_prime") => ~last.overflow

(* C10 as stated: after generate_to(n) the sieve length is the smallest    *)
(* power of two exceeding n.                                               *)
C10_LengthIsSmallestPowerAbove ==
    Returned("generate_to") => Len(sieve) = SmallestPowerAbove(last.arg)

(* C10 amended: after generate_to(n) the sieve length is the larger of the *)
(* length before the call and the smallest power of two exceeding n.       *)
C10_LengthIsSmallestPowerAboveOrOld ==
    [][Returns("generate_to") =>
          Len(sieve') = Max(Len(sieve), SmallestPowerAbove(last'.arg))]_vars

C10_Witness ==
    Returned("generate_to") /\ last.arg = 8 /\ Len(sieve) = 16

(* C11: is_prime(n) never changes the engine: for every n, answered from   *)
(* the sieve (n below the length) or by trial division and the wheel, and  *)
(* whether it returns or panics, the sieve, its length and the primes list *)
(* are the same after the call as before it.                               *)
C11_IsPrimeLeavesEngine ==
    [][(pc = "idle" /\ pc' = "returned" /\ last'.op = "is_prime") =>
          /\ sieve' = sieve
          /\ Len(sieve') = Len(sieve)
          /\ primes' = primes]_vars

C11_Witness ==
    /\ Returned("is_prime") /\ last.arg = 101 /\ last.bool
    /\ Len(sieve) = 8 /\ primes = <<2, 3, 5, 7>>

(* C12: generate_amount(amount) terminates from every reachable state for *)
(* every amount: an iteration of its loop that does not panic doubles the  *)
(* sieve length and appends at least one prime, a return leaves more than  *)
(* amount primes, and every started call comes to its end.                 *)
C12_GenerateAmountTerminates ==
    /\ [][/\ (pc = "loop" /\ pc' = "loop") =>
                (Len(sieve') = 2 * Len(sieve) /\ Len(primes') > Len(primes))
          /\ (pc = "loop" /\ pc' = "returned" /\ ~panicked') =>
                (Len(primes') > last'.arg)]_vars
    /\ (pc = "loop") ~> (pc = "returned")

C12_Witness ==
    /\ Returned("generate_amount") /\ last.arg = 10
    /\ Len(sieve) = 32 /\ Len(primes) > 10

(* C13: the state Primes::new() produces is exactly: sieve length 4,      *)
(* sieve = [true, true, false, false] and primes = [2, 3]; it is the state *)
(* of the engine until a call first grows the sieve.                       *)
C13_NewIsTheFourEntrySieve ==
    /\ new.sieve = <<TRUE, TRUE, FALSE, FALSE>>
    /\ new.primes = <<2, 3>>
    /\ Len(sieve) <= 4 =>
          /\ Len(sieve) = 4
          /\ sieve = <<TRUE, TRUE, FALSE, FALSE>>
          /\ primes = <<2, 3>>

C13_Witness ==
    /\ Returned("generate_to") /\ last.arg = 3
    /\ Len(sieve) = 4 /\ primes = <<2, 3>>

(* C14: inside generate_to, when the second loop visits an index of the   *)
(* newly added range, its sieve entry is false if and only if the index is *)
(* prime; and when the first loop has ended, every index of the new range  *)
(* that a previously known prime divides is marked.                        *)
C14_ScanVisitsResolvedIndices ==
    [][/\ (pc' = "scan" /\ last'.num < Len(sieve')) =>
             (At(sieve', last'.num) = ~IsPrimeRef(last'.num))
       /\ (pc = "idle" /\ pc' = "scan") =>
             \A j \in Len(sieve)..(Len(sieve') - 1) :
                 (\E k \in 1..Len(primes) : j % primes[k] = 0) => At(sieve', j)]_vars

(* C15: generate_to(n), for every n whose new length fits the index type, *)
(* computes no value that exceeds usize::MAX: neither the start of a known *)
(* prime's marking, (old_len + p - 1) / p * p, nor the square p * p of a   *)
(* newly found prime.                                                      *)
C15_GenerateToNeverOverflows ==
    (pc = "returned" /\ last.op = "generate_to" /\ ~TargetLen(last.arg).overflow)
        => ~last.overflow

(* C16 as stated: a next step of either iterator that finds, after the    *)
(* cursor is incremented, at least cursor entries in the primes list       *)
(* leaves the sieve and the primes list unchanged.                         *)
C16_NextGrowsOnlyWhenShort ==
    [][(pc = "idle" /\ pc' = "returned" /\ last'.op = "next"
            /\ Len(primes) >= index') =>
          (sieve' = sieve /\ primes' = primes)]_vars

(* C16 amended: a next step that finds, after the cursor is incremented,   *)
(* more than cursor entries in the primes list leaves the sieve and the    *)
(* primes list unchanged; one that finds cursor entries or fewer and       *)
(* returns has grown the sieve until the list holds more than cursor.      *)
C16_NextGrowsUnlessAhead ==
    [][(pc = "idle" /\ pc' = "returned" /\ last'.op = "next") =>
          /\ Len(primes) > index' => (sieve' = sieve /\ primes' = primes)
          /\ (Len(primes) <= index' /\ ~panicked') =>
                (Len(sieve') > Len(sieve) /\ Len(primes') > index')]_vars

C16_Witness ==
    /\ Returned("next") /\ index = 3 /\ last.num = 5
    /\ Len(sieve) = 8 /\ primes = <<2, 3, 5, 7>>

(* C17: a generate_to call that grows the sieve leaves every entry below  *)
(* the length the sieve had before the call as it was.                     *)
C17_GrowthKeepsResolvedEntries ==
    [][(pc = "idle" /\ pc' = "returned" /\ last'.op = "generate_to"
            /\ Len(sieve') > Len(sieve)) =>
          \A i \in 0..(Len(sieve) - 1) : At(sieve', i) = At(sieve, i)]_vars

(* C18: the engine state is a function of the sieve length alone: every   *)
(* state the calls reach, by whatever sequence of generate_to,             *)
(* generate_amount and next, has the sieve and the primes list that one    *)
(* generate_to from the new engine to the same length produces.            *)
C18_StateIsAFunctionOfLength ==
    ~panicked =>
        \E once \in {generate_to(new.sieve, new.primes, Len(sieve) - 1,
                                 overflow_checks)} :
            /\ ~once.panic
            /\ once.sieve = sieve
            /\ once.primes = primes

=============================================================================
